---- MODULE Spec2Model ----
(***************************************************************************)
(* The mrq worker (mrq/worker.py): the dequeue-dispatch loop of work_loop, *)
(* the pool slots running perform_job, and the signal handlers that shut   *)
(* the worker down.                                                        *)
(*                                                                         *)
(* Scheduling is gevent's: one greenlet runs at a time and the others run  *)
(* only while it is suspended in I/O, a sleep or a pool wait.  Each action *)
(* below takes one greenlet from one suspension point to the next.         *)
(***************************************************************************)
EXTENDS Integers, Sequences, FiniteSets, TLC

\* Bounds of the model.
NumJobs == 2            \* job ids an external producer may enqueue
MaxPoolSize == 2        \* largest config["pool_size"]
MaxMaxJobs == 2         \* largest config["max_jobs"]

JobIds == 1..NumJobs
Queues == <<"q1", "q2">>
QueueNames == {Queues[i] : i \in 1..Len(Queues)}

\* Classes a task body, the armed gevent.Timeout or pool.kill can raise in a slot.
ExcClasses == {"Exception", "JobTimeoutException", "JobInterrupt"}
\* Values of job.retry_on_exceptions that the tasks of the model declare.
RetrySets == {{}, {"Exception"}, ExcClasses}

TerminalStatuses == {"success", "failed", "timeout", "interrupt", "retry"}

VARIABLES
  config,           \* [max_jobs, pool_size]: the worker's config
  redis,            \* [queue name -> sequence of job ids]: the redis lists
  job_status,       \* [job id -> status persisted in MongoDB]
  status,           \* self.status
  done_jobs,        \* self.done_jobs
  graceful_stop,    \* self.graceful_stop
  pc,               \* where the main greenlet (work_loop) is
  free_pool_slots,  \* local of work_loop
  queue,            \* local of dequeue_jobs: the queue that answered blpop
  job_ids,          \* local of dequeue_jobs: popped ids not yet materialized
  jobs,             \* local of dequeue_jobs/work_loop: jobs not yet spawned
  slot,             \* [job id -> where the pool greenlet spawned for it is]
  timer,            \* [job id -> state of the gevent.Timeout of its slot]
  kill,             \* [job id -> state of the JobInterrupt injected by pool.kill]
  current_job,      \* [job id (greenlet) -> job bound by set_current_job, 0 = None]
  sigints,          \* SIGINTs handled so far: 0, 1, or 2 for two and more
  sigterm,          \* a SIGTERM was handled
  final_report,     \* status written by report_worker(w=1), "none" before
  final_flush,      \* flush_logs(w=1) done
  monitoring,       \* self.greenlets["monitoring"]: "none", "running", "dead"
  heartbeat         \* the worker's document in mrq_workers, as last written

vars == <<config, redis, job_status, status, done_jobs, graceful_stop,
          pc, free_pool_slots, queue, job_ids, jobs, slot, timer, kill,
          current_job, sigints, sigterm, final_report,
          final_flush, monitoring, heartbeat>>

mainVars == <<status, done_jobs, pc, free_pool_slots, queue, job_ids, jobs,
              final_report, final_flush>>
slotVars == <<slot, timer, kill, current_job>>
signalVars == <<graceful_stop, sigints, sigterm>>
reportVars == <<monitoring, heartbeat>>

----------------------------------------------------------------------------
\* The pool: gevent.pool.Pool(pool_size)

\* Greenlets of the pool: spawned and not yet exited.
Live == {j \in JobIds : slot[j] \notin {"idle", "exited"}}

free_count == config.pool_size - Cardinality(Live)

\* Points where the main greenlet is suspended and other greenlets (and the
\* hub's signal watchers) run: the redis and MongoDB calls, the blocking pool
\* calls, and gevent.sleep (line 237) and pool.spawn only when the pool is full.
MainSuspended ==
  \/ pc \in {"blpop", "start_first", "lpop", "start_rest", "join", "kill_wait",
             "greenlets_kill", "report", "flush"}
  \/ pc = "wait" /\ free_count = 0
  \/ pc = "spawn" /\ jobs # <<>> /\ free_count = 0

\* The main loop of work_loop, inside the try.
InMainLoop == pc \in {"wait", "blpop", "start_first", "lpop", "start_rest",
                      "spawn", "check"}

Exited == pc \in {"done", "aborted"}

----------------------------------------------------------------------------
\* The keys of config that the worker reads (lines 42-71, 118, 224).  The
\* model varies max_jobs and pool_size; no scheduler greenlet is configured.
Configs ==
  [max_jobs : 0..MaxMaxJobs, pool_size : 1..MaxPoolSize, queues : {Queues},
   name : {"worker"}, quiet : {FALSE}, profile : {FALSE}, scheduler : {FALSE},
   report_interval : {"10"}]

\* No document in mrq_workers yet.
NoHeartbeat == [config |-> [k \in {} |-> FALSE], w |-> -1]

Init ==
  /\ config \in Configs
  /\ redis = [q \in QueueNames |-> <<>>]
  /\ job_status = [j \in JobIds |-> "none"]
  /\ status = "init"
  /\ done_jobs = 0
  /\ graceful_stop = FALSE
  /\ pc = "init"
  /\ free_pool_slots = 0
  /\ queue = "q1"
  /\ job_ids = <<>>
  /\ jobs = <<>>
  /\ slot = [j \in JobIds |-> "idle"]
  /\ timer = [j \in JobIds |-> "off"]
  /\ kill = [j \in JobIds |-> "no"]
  /\ current_job = [j \in JobIds |-> 0]
  /\ sigints = 0
  /\ sigterm = FALSE
  /\ final_report = "none"
  /\ final_flush = FALSE
  /\ monitoring = "none"
  /\ heartbeat = NoHeartbeat

\* An external producer creates the next job (status queued) and pushes its id.
\* Ids pushed after the worker has left its main loop are never popped by it.
Enqueue(q) ==
  /\ pc = "init" \/ InMainLoop
  /\ \E j \in JobIds :
       /\ job_status[j] = "none"
       /\ \A i \in JobIds : i < j => job_status[i] # "none"
       /\ job_status' = [job_status EXCEPT ![j] = "queued"]
       /\ redis' = [redis EXCEPT ![q] = Append(@, j)]
  /\ UNCHANGED <<config, reportVars, mainVars, slotVars, signalVars>>

----------------------------------------------------------------------------
\* work_loop, lines 218-227: connect, status, background greenlets, handlers.
StartWorkLoop ==
  /\ pc = "init"
  /\ status' = "started"
  /\ graceful_stop' = FALSE
  /\ pc' = "wait"
  /\ monitoring' = "running"
  /\ UNCHANGED <<config, redis, job_status, done_jobs, free_pool_slots, queue,
                 job_ids, jobs, slotVars, sigints, sigterm, final_report,
                 final_flush, heartbeat>>

\* Line 235: if free_pool_slots > 0
HasFreeSlotOrNone(n) == n >= 0
HasFreeSlot(n) == n > 0

\* Lines 233-237: leave the inner loop once free_count() > 0; sleep otherwise.
WaitFreeSlot ==
  /\ pc = "wait"
  /\ HasFreeSlot(free_count)
  /\ free_pool_slots' = free_count
  /\ pc' = "blpop"
  /\ UNCHANGED <<config, reportVars, redis, job_status, status, done_jobs,
                 queue, job_ids, jobs, slotVars, signalVars, final_report,
                 final_flush>>

\* redis.blpop(keys, 0): the leftmost non-empty list of the keys, in key order.
BlpopKey ==
  LET i == CHOOSE k \in 1..Len(Queues) :
             /\ redis[Queues[k]] # <<>>
             /\ \A l \in 1..(k - 1) : redis[Queues[l]] = <<>>
  IN Queues[i]

\* Line 192: blocks until one of the queues has an id, and pops it.
Blpop ==
  /\ pc = "blpop"
  /\ \E q \in QueueNames : redis[q] # <<>>
  /\ queue' = BlpopKey
  /\ job_ids' = <<Head(redis[BlpopKey])>>
  /\ redis' = [redis EXCEPT ![BlpopKey] = Tail(@)]
  /\ jobs' = <<>>
  /\ pc' = "start_first"
  /\ UNCHANGED <<config, reportVars, job_status, status, done_jobs,
                 free_pool_slots, slotVars, signalVars, final_report,
                 final_flush>>

\* Lines 197 and 208: the argument start of job_class(job_id, ..., start=True).
no_start == FALSE
start == TRUE

\* job_class(job_id, start=st) loads the job from MongoDB and, when st is
\* true, marks it started there before it returns.
job_class(j, st) ==
  IF st THEN [job_status EXCEPT ![j] = "started"] ELSE job_status

\* Line 197: the job of the id that blpop returned.
StartFirst ==
  /\ pc = "start_first"
  /\ job_status' = job_class(Head(job_ids), start)
  /\ jobs' = <<Head(job_ids)>>
  /\ job_ids' = <<>>
  /\ pc' = IF free_pool_slots > 1 THEN "lpop" ELSE "spawn"
  /\ UNCHANGED <<config, reportVars, redis, status, done_jobs,
                 free_pool_slots, queue, slotVars, signalVars, final_report,
                 final_flush>>

\* Line 204: range(max_jobs - 1), the lpops put in the pipeline.
BulkCount(max_jobs) == max_jobs - 1

Min(a, b) == IF a < b THEN a ELSE b

\* Line 209: if _job_id (None, here 0, is what lpop returns for an empty list)
AnyResult(r) == TRUE
IsJobId(r) == r # 0

\* pipe.execute() for count lpops on list: the ids popped from its head, in
\* order, then None for each lpop that found the list empty.
PipelineResults(list, count) ==
  [i \in 1..count |-> IF i <= Len(list) THEN list[i] ELSE 0]

\* Lines 203-206 and the filter of line 209: the pipeline of lpops on the
\* queue that answered, and the results that are job ids.
Lpop ==
  /\ pc = "lpop"
  /\ LET n == Min(BulkCount(free_pool_slots), Len(redis[queue]))
         results == PipelineResults(redis[queue], BulkCount(free_pool_slots))
     IN /\ job_ids' = SelectSeq(results, IsJobId)
        /\ redis' = [redis EXCEPT ![queue] = SubSeq(@, n + 1, Len(@))]
        /\ pc' = IF job_ids' = <<>> THEN "spawn" ELSE "start_rest"
  /\ UNCHANGED <<config, reportVars, job_status, status, done_jobs,
                 free_pool_slots, queue, jobs, slotVars, signalVars,
                 final_report, final_flush>>

\* Lines 208-209: one job_class(_job_id, start=True) of the list comprehension.
StartRest ==
  /\ pc = "start_rest"
  /\ job_status' = job_class(Head(job_ids), start)
  /\ jobs' = Append(jobs, Head(job_ids))
  /\ job_ids' = Tail(job_ids)
  /\ pc' = IF Tail(job_ids) = <<>> THEN "spawn" ELSE "start_rest"
  /\ UNCHANGED <<config, reportVars, redis, status, done_jobs,
                 free_pool_slots, queue, slotVars, signalVars, final_report,
                 final_flush>>

\* Line 247: self.done_jobs += 1
NotIncremented(n) == n
Incremented(n) == n + 1

\* Lines 243-247: one turn of the for loop.  Pool.spawn acquires the pool's
\* semaphore, so it waits while no slot is free.
Spawn ==
  /\ pc = "spawn"
  /\ jobs # <<>>
  /\ free_count > 0
  /\ slot' = [slot EXCEPT ![Head(jobs)] = "spawned"]
  /\ done_jobs' = Incremented(done_jobs)
  /\ jobs' = Tail(jobs)
  /\ pc' = IF Tail(jobs) = <<>> THEN "check" ELSE "spawn"
  /\ UNCHANGED <<config, reportVars, redis, job_status, status,
                 free_pool_slots, queue, job_ids, timer, kill, current_job,
                 signalVars, final_report, final_flush>>

\* free_pool_slots and queue are read for the last time by the lpops of the
\* turn of the loop that set them: once the loop is left, or the next turn
\* starts, the model forgets them.
LoopLocalsDead ==
  /\ free_pool_slots' = 0
  /\ queue' = "q1"

\* Line 249: self.max_jobs and self.max_jobs >= self.done_jobs
ReachedMaxJobs == config.max_jobs # 0 /\ config.max_jobs >= done_jobs

\* Lines 249-251, and on break lines 256-261 (the finalizer sets the status).
CheckMaxJobs ==
  /\ pc = "check"
  /\ IF ReachedMaxJobs
       THEN /\ pc' = "join"
            /\ status' = "stopping"
       ELSE /\ pc' = "wait"
            /\ UNCHANGED status
  /\ LoopLocalsDead
  /\ UNCHANGED <<config, reportVars, redis, job_status, done_jobs, job_ids,
                 jobs, slotVars, signalVars, final_report, final_flush>>

----------------------------------------------------------------------------
\* The finalizer of work_loop, lines 256-279

\* Line 263: gevent_pool.join(timeout=None) returns once the pool is empty.
PoolJoin ==
  /\ pc = "join"
  /\ Live = {}
  /\ pc' = "kill"
  /\ UNCHANGED <<config, reportVars, redis, job_status, status, done_jobs,
                 free_pool_slots, queue, job_ids, jobs, slotVars, signalVars,
                 final_report, final_flush>>

\* Group.kill(exception): JobInterrupt is scheduled for every greenlet of the
\* pool that was not killed before (gevent keeps them in Group.dying); it is
\* raised in the greenlet when the hub next switches to it.
Injected ==
  [j \in JobIds |-> IF j \in Live /\ kill[j] = "no" THEN "pending" ELSE kill[j]]

\* Line 269: gevent_pool.kill(exception=JobInterrupt, block=True); with
\* block=True it then waits until the pool is empty.
PoolKill ==
  /\ pc = "kill"
  /\ kill' = Injected
  /\ pc' = IF Live = {} THEN "greenlets_kill" ELSE "kill_wait"
  /\ UNCHANGED <<config, reportVars, redis, job_status, status, done_jobs,
                 free_pool_slots, queue, job_ids, jobs, slot, timer,
                 current_job, signalVars, final_report, final_flush>>

PoolKillWait ==
  /\ pc = "kill_wait"
  /\ Live = {}
  /\ pc' = "greenlets_kill"
  /\ UNCHANGED <<config, reportVars, redis, job_status, status, done_jobs,
                 free_pool_slots, queue, job_ids, jobs, slotVars, signalVars,
                 final_report, final_flush>>

\* Line 272: greenlet.kill(block=True) returns once the greenlet g is dead.
GreenletSurvives(g) == g
GreenletKilled(g) == "dead"

\* Lines 271-273: the background greenlets are killed with block=True.
GreenletsKill ==
  /\ pc = "greenlets_kill"
  /\ pc' = "report"
  /\ monitoring' = GreenletKilled(monitoring)
  /\ UNCHANGED <<config, redis, job_status, status, done_jobs,
                 free_pool_slots, queue, job_ids, jobs, slotVars, signalVars,
                 final_report, final_flush, heartbeat>>

\* Lines 145-150
whitelisted_config == {"max_jobs", "pool_size", "queues", "name"}

\* Line 156: if k in whitelisted_config
AnyKey(k) == TRUE
IsWhitelisted(k) == k \in whitelisted_config

\* Lines 152-181: the field config of the document that report_worker(w)
\* upserts, and the write concern of the upsert.  Of the field status the
\* model follows the one of the final write, in final_report.
report_worker(w) ==
  [config |-> [k \in {x \in DOMAIN config : IsWhitelisted(x)} |-> config[k]],
   w |-> w]

\* Line 275: report_worker(w=1) writes self.status (line 155) to the heartbeat.
ReportWorkerFinal ==
  /\ pc = "report"
  /\ final_report' = status
  /\ heartbeat' = report_worker(1)
  /\ pc' = "flush"
  /\ UNCHANGED <<config, redis, job_status, status, done_jobs,
                 free_pool_slots, queue, job_ids, jobs, slotVars, signalVars,
                 final_flush, monitoring>>

\* Line 276: flush_logs(w=1); work_loop then returns.
FlushLogsFinal ==
  /\ pc = "flush"
  /\ final_flush' = TRUE
  /\ pc' = "done"
  /\ UNCHANGED <<config, reportVars, redis, job_status, status, done_jobs,
                 free_pool_slots, queue, job_ids, jobs, slotVars, signalVars,
                 final_report>>

----------------------------------------------------------------------------
\* Signals, lines 321-358.  gevent runs the handler from the hub while the
\* main greenlet is suspended and throws what the handler raises into the main
\* greenlet, at the point where it is suspended.

\* StopRequested raised in the main greenlet; st is self.status at the raise.
\*  - in the main loop: caught at line 253, and the finalizer sets the status
\*    (line 261) and starts the join;
\*  - in the join: caught at line 266, the flow goes on at line 269;
\*  - later in the finalizer: nothing catches it, work_loop is left.
StopRequested(st) ==
  IF InMainLoop
    THEN /\ status' = "stopping"
         /\ pc' = "join"
         /\ LoopLocalsDead
    ELSE /\ status' = st
         /\ pc' = IF pc = "join" THEN "kill" ELSE "aborted"
         /\ UNCHANGED <<free_pool_slots, queue>>

\* Lines 321-325
shutdown_graceful ==
  /\ StopRequested(status)
  /\ UNCHANGED kill

\* Lines 327-335
shutdown_now ==
  /\ kill' = Injected
  /\ StopRequested("killing")

\* Lines 345-355: the handler of SIGINT.
request_shutdown_graceful ==
  /\ MainSuspended
  /\ sigints' = IF sigints < 2 THEN sigints + 1 ELSE sigints
  /\ IF graceful_stop
       THEN shutdown_now /\ UNCHANGED graceful_stop
       ELSE graceful_stop' = TRUE /\ shutdown_graceful
  /\ UNCHANGED <<config, reportVars, redis, job_status, done_jobs, job_ids,
                 jobs, slot, timer, current_job, sigterm, final_report,
                 final_flush>>

\* Lines 342-343 and 358: the handler of SIGTERM.
request_shutdown_now ==
  /\ MainSuspended
  /\ sigterm' = TRUE
  /\ shutdown_now
  /\ UNCHANGED <<config, reportVars, redis, job_status, done_jobs, job_ids,
                 jobs, slot, timer, current_job, graceful_stop, sigints,
                 final_report, final_flush>>

----------------------------------------------------------------------------
\* perform_job, lines 281-319, run by the greenlet of a pool slot.
\*
\* job.retry_on_exceptions is read once per job, by the except clause of line
\* 298 when the try block raises: the actions draw its value (rs) there.

\* The except clauses of lines 298-315, in their order: the handler that an
\* exception of class c raised inside the try reaches.
Handler(rs, c) ==
  IF c \in rs THEN "save_retry"
  ELSE IF c = "JobTimeoutException" THEN "save_timeout"
  ELSE IF c = "JobInterrupt" THEN "save_interrupt"
  ELSE "save_failed"

\* A slot inside a handler, suspended in the write of save_retry/save_status.
\* "save_retry_request" is the handler of line 299 called with the retry
\* request of the task body (its queue and countdown).
Handlers == {"save_retry", "save_retry_request", "save_timeout", "save_interrupt",
             "save_failed"}

\* The status each handler persists (lines 299, 305, 310, 315).
Saved(h) ==
  CASE h \in {"save_retry", "save_retry_request"} -> "retry"
    [] h = "save_timeout" -> "timeout"
    [] h = "save_interrupt" -> "interrupt"
    [] h = "save_failed" -> "failed"

\* The hub switches to the greenlet of the slot.
SlotRuns(j) == MainSuspended /\ slot[j] \notin {"idle", "exited"}

\* A greenlet killed by pool.kill gets the JobInterrupt when the hub next
\* switches to it, before it can go on.
SlotGoesOn(j) == SlotRuns(j) /\ kill[j] # "pending"

\* Line 319: set_current_job(None), called in the greenlet of job j.
KeepCurrentJob(j) == current_job
ClearCurrentJob(j) == [current_job EXCEPT ![j] = 0]

\* Lines 317-319, then the greenlet ends and the pool frees its slot.
Finally(j) ==
  /\ slot' = [slot EXCEPT ![j] = "exited"]
  /\ timer' = [timer EXCEPT ![j] = "off"]
  /\ kill' = [kill EXCEPT ![j] = "no"]
  /\ current_job' = ClearCurrentJob(j)

\* Lines 287-296: bind the job, arm the timeout, enter job.perform().
PerformJob(j) ==
  /\ SlotRuns(j)
  /\ slot[j] = "spawned"
  /\ slot' = [slot EXCEPT ![j] = "perform"]
  /\ current_job' = [current_job EXCEPT ![j] = j]
  /\ timer' = [timer EXCEPT ![j] = "armed"]
  /\ UNCHANGED <<config, reportVars, redis, job_status, mainVars, kill,
                 signalVars>>

\* job.perform() returns: it has saved the result with status success.
TaskReturns(j) ==
  /\ SlotGoesOn(j)
  /\ slot[j] = "perform"
  /\ job_status' = [job_status EXCEPT ![j] = "success"]
  /\ Finally(j)
  /\ UNCHANGED <<config, reportVars, redis, mainVars, signalVars>>

\* The task body raises an Exception (RaiseException.run).
TaskRaises(j, rs) ==
  /\ SlotGoesOn(j)
  /\ slot[j] = "perform"
  /\ slot' = [slot EXCEPT ![j] = Handler(rs, "Exception")]
  /\ UNCHANGED <<config, reportVars, redis, job_status, mainVars, timer, kill,
                 current_job, signalVars>>

\* The task body asks for a retry (Retry.run, retry_current_job): the request
\* leaves job.perform() as a failure that the clause of line 298 catches
\* whatever the retry set of the task, and line 43 of the task is not reached.
TaskRetries(j) ==
  /\ SlotGoesOn(j)
  /\ slot[j] = "perform"
  /\ slot' = [slot EXCEPT ![j] = "save_retry_request"]
  /\ UNCHANGED <<config, reportVars, redis, job_status, mainVars, timer, kill,
                 current_job, signalVars>>

\* An exception raised in a slot that is inside a handler, suspended in the
\* handler's write: it leaves perform_job through the finally.  The write
\* has reached the database (written) or not.
HandlerAborted(j, written) ==
  /\ job_status' = [job_status EXCEPT ![j] = IF written THEN Saved(slot[j]) ELSE @]
  /\ Finally(j)

\* The gevent.Timeout armed at line 293 expires (it is cancelled at line 318).
TimeoutFires(j, rs, written) ==
  /\ SlotGoesOn(j)
  /\ timer[j] = "armed"
  /\ IF slot[j] = "perform"
       THEN /\ slot' = [slot EXCEPT ![j] = Handler(rs, "JobTimeoutException")]
            /\ timer' = [timer EXCEPT ![j] = "fired"]
            /\ UNCHANGED <<job_status, kill, current_job>>
       ELSE /\ slot[j] \in Handlers
            /\ HandlerAborted(j, written)
  /\ UNCHANGED <<config, reportVars, redis, mainVars, signalVars>>

\* The JobInterrupt injected by pool.kill is raised in the slot.
InterruptRaised(j, rs, written) ==
  /\ SlotRuns(j)
  /\ kill[j] = "pending"
  /\ IF slot[j] = "perform"
       THEN /\ slot' = [slot EXCEPT ![j] = Handler(rs, "JobInterrupt")]
            /\ kill' = [kill EXCEPT ![j] = "delivered"]
            /\ UNCHANGED <<job_status, timer, current_job>>
       ELSE /\ slot[j] \in Handlers
            /\ HandlerAborted(j, written)
  /\ UNCHANGED <<config, reportVars, redis, mainVars, signalVars>>

\* The write of a handler is done and perform_job returns through the finally.
\* (save_retry also pushes the id back for a later run; the model follows each
\* job id through one run.)
HandlerSaves(j) ==
  /\ SlotGoesOn(j)
  /\ slot[j] \in Handlers
  /\ job_status' = [job_status EXCEPT ![j] = Saved(slot[j])]
  /\ Finally(j)
  /\ UNCHANGED <<config, reportVars, redis, mainVars, signalVars>>

----------------------------------------------------------------------------
\* Lines 112-118: one turn of the loop of greenlet_monitoring, which runs
\* while the main greenlet is suspended: report_worker(), flush_logs(w=0)
\* and the sleep until the next turn.
greenlet_monitoring ==
  /\ MainSuspended
  /\ monitoring = "running"
  /\ heartbeat' = report_worker(0)
  /\ UNCHANGED <<config, redis, job_status, mainVars, slotVars, signalVars,
                 monitoring>>

----------------------------------------------------------------------------
Next ==
  \/ \E q \in QueueNames : Enqueue(q)
  \/ StartWorkLoop
  \/ WaitFreeSlot
  \/ Blpop
  \/ StartFirst
  \/ Lpop
  \/ StartRest
  \/ Spawn
  \/ CheckMaxJobs
  \/ PoolJoin
  \/ PoolKill
  \/ PoolKillWait
  \/ GreenletsKill
  \/ ReportWorkerFinal
  \/ FlushLogsFinal
  \/ request_shutdown_graceful
  \/ request_shutdown_now
  \/ greenlet_monitoring
  \/ \E j \in JobIds :
       \/ PerformJob(j)
       \/ TaskReturns(j)
       \/ HandlerSaves(j)
       \/ \E rs \in RetrySets :
            \/ TaskRaises(j, rs)
            \/ \E written \in BOOLEAN :
                 \/ TimeoutFires(j, rs, written)
                 \/ InterruptRaised(j, rs, written)
       \/ TaskRetries(j)

Spec == Init /\ [][Next]_vars

----------------------------------------------------------------------------
\* Properties

NoSignal == sigints = 0 /\ ~sigterm

\* shutdown_now has run: a SIGTERM, or a second SIGINT.
Forced == sigterm \/ sigints >= 2

Dequeuing == pc \in {"wait", "blpop", "start_first", "lpop", "start_rest"}

InFinalizer == pc \in {"join", "kill", "kill_wait", "greenlets_kill", "report",
                       "flush", "done", "aborted"}

\* C1: with max_jobs > 0 and no signal, once a batch of spawns has left
\* done_jobs >= max_jobs the main loop is not back waiting for a slot or
\* dequeuing: it is finishing the batch, or in the finalizer.
C1_NoDequeueAfterMaxJobs ==
  (config.max_jobs > 0 /\ done_jobs >= config.max_jobs /\ NoSignal)
    => ~Dequeuing

\* C2: with max_jobs > 0 and no signal, the main loop is left (for the
\* max_jobs reason, the only one there is without a signal) only when
\* done_jobs has reached max_jobs.
C2_NoBreakBelowMaxJobs ==
  (config.max_jobs > 0 /\ NoSignal /\ InFinalizer)
    => done_jobs >= config.max_jobs

\* C3: a job whose slot has exited has a persisted status among success,
\* failed, timeout, interrupt and retry; it is not left started.
C3_SettledWhenSlotExits ==
  \A j \in JobIds : slot[j] = "exited" => job_status[j] \in TerminalStatuses

\* C4: whenever the for loop of work_loop is about to spawn, the jobs still
\* to spawn fit in the free slots of the pool: spawn never meets a full pool.
C4_SpawnOnlyWithFreeSlot ==
  pc = "spawn" => Cardinality(Live) + Len(jobs) <= config.pool_size

\* C4 witness: dequeue_jobs returned a batch of two jobs, which the for loop
\* is about to spawn into a pool of two slots.
C4_Witness ==
  /\ pc = "spawn"
  /\ Len(jobs) = 2
  /\ config.pool_size = 2

\* C5: after a single SIGINT and no other signal, the main loop dispatches
\* nothing more, no job is interrupted, and the finalizer reaches its
\* pool.kill only with the pool drained by the join.
C5_GracefulLetsJobsFinish ==
  (sigints = 1 /\ ~sigterm) =>
    /\ ~InMainLoop
    /\ \A j \in JobIds : kill[j] = "no" /\ job_status[j] # "interrupt"
    /\ pc \in {"kill", "kill_wait"} => Live = {}

\* C6: once shutdown_now has run, every job that occupies a slot leaves it
\* with persisted status interrupt, wherever in perform_job the slot was.
C6_ForcedEndsInterrupt ==
  [][\A j \in JobIds :
       (Forced /\ j \in Live /\ slot'[j] = "exited")
         => job_status'[j] = "interrupt"]_vars

\* C7: the first SIGINT is graceful (no kill, StopRequested), the second
\* is forced (status killing, JobInterrupt injected, StopRequested), and a
\* third or later SIGINT changes neither status, nor the pool, nor where
\* the main greenlet is.
C7_SigintCounting ==
  [][request_shutdown_graceful =>
       /\ sigints = 0 => (kill' = kill /\ pc' # pc /\ graceful_stop')
       /\ sigints = 1 => (kill' = Injected /\ pc' # pc
                          /\ (status' = "killing" \/ InMainLoop))
       /\ sigints >= 2 => (status' = status /\ kill' = kill /\ pc' = pc)]_vars

\* C8: work_loop is never left without the final heartbeat (w=1) and the
\* final log flush (w=1) both done.
C8_FinalizerCompletes ==
  Exited => (final_report # "none" /\ final_flush)

\* C9: a slot whose Timeout was delivered inside the task body leaves
\* perform_job with persisted status timeout, and that does not move the
\* main loop.
C9_TimeoutRecorded ==
  [][\A j \in JobIds :
       (timer[j] = "fired" /\ j \in Live /\ slot'[j] = "exited")
         => (job_status'[j] = "timeout" /\ pc' = pc)]_vars

\* C10: a job whose task body asked for a retry and signalled it leaves
\* perform_job with persisted status retry, whatever the retry set of its
\* task; the status is not failed.
C10_ExplicitRetryKept ==
  [][\A j \in JobIds :
       (slot[j] = "save_retry_request" /\ slot'[j] = "exited")
         => job_status'[j] = "retry"]_vars

\* C11: a slot that caught a failure of the task body in the clause of line
\* 312 (not in the retry set, not a Timeout, not an Interrupt) leaves
\* perform_job with persisted status failed, and that changes neither where
\* the main greenlet is nor the worker's status.
C11_FailureRecorded ==
  [][\A j \in JobIds :
       (slot[j] = "save_failed" /\ slot'[j] = "exited")
         => (job_status'[j] = "failed" /\ pc' = pc /\ status' = status)]_vars

\* A slot that is executing perform_job between its prologue and its finally.
InPerformJob(j) == slot[j] \in {"perform"} \cup Handlers

\* C12: the job bound to the greenlet of a slot is the job it was spawned
\* with while the slot is inside perform_job, and none before perform_job
\* has started and after it has exited, by whatever path.
C12_OneJobBoundPerSlot ==
  \A j \in JobIds :
    current_job[j] = IF InPerformJob(j) THEN j ELSE 0

\* C12 witness: one slot has left perform_job through an exception raised
\* inside a handler (its job is still started) while another slot is inside
\* a handler with its job bound.
C12_Witness ==
  \E j, k \in JobIds :
    /\ slot[j] = "exited" /\ job_status[j] = "started" /\ current_job[j] = 0
    /\ slot[k] \in Handlers /\ current_job[k] = k

\* C13: the final heartbeat, the one report_worker(w=1) writes in the
\* finalizer, carries the worker status stopping, whatever signals came
\* before it and whenever they came.
C13_FinalHeartbeatStopping ==
  final_report # "none" => final_report = "stopping"

\* C15: a slot that leaves perform_job from inside one of its handlers has
\* persisted what the handler was saving, also when a Timeout or an
\* Interrupt was delivered to it during the save.
C15_HandlerSaveCompletes ==
  [][\A j \in JobIds :
       (slot[j] \in Handlers /\ slot'[j] = "exited")
         => job_status'[j] = Saved(slot[j])]_vars

\* C16: a job is spawned into the pool, and so its task body runs, only
\* after its status started has been persisted: a job that has a greenlet
\* of the pool is never still queued.
C16_StartedBeforeSpawn ==
  \A j \in JobIds : slot[j] # "idle" => job_status[j] \notin {"none", "queued"}

\* C16 witness: a job with persisted status started has just been spawned and
\* its greenlet has not run yet.
C16_Witness ==
  \E j \in JobIds : slot[j] = "spawned" /\ job_status[j] = "started"

\* Jobs for which the main loop has called pool.spawn(perform_job, job).
Dispatched == {j \in JobIds : slot[j] # "idle"}

\* C17: done_jobs is the number of pool.spawn calls made so far; a slot
\* that runs or finishes, with any outcome, does not change it.
C17_DoneJobsCountsDispatches ==
  done_jobs = Cardinality(Dispatched)

\* C17 witness: two jobs were dispatched, one has finished and one has not,
\* and done_jobs is 2.
C17_Witness ==
  /\ done_jobs = 2
  /\ \E j, k \in JobIds : slot[j] = "exited" /\ k \in Live

\* q is the first of the worker's queues, in their configured order, whose
\* redis list is not empty.
Leftmost(q) ==
  \E k \in 1..Len(Queues) :
    /\ Queues[k] = q
    /\ redis[q] # <<>>
    /\ \A l \in 1..(k - 1) : redis[Queues[l]] = <<>>

\* C18: along one call of dequeue_jobs(max_jobs=free) and the spawns that
\* follow it:
\*  - the blocking pop takes the head of the leftmost non-empty queue;
\*  - the bulk pops take at most free - 1 ids, all of them real ids, from the
\*    head of that same queue and in its order, and leave the other queues
\*    alone;
\*  - the jobs are built in the order of the pops, the call returns between 1
\*    and free of them, and they are spawned in that order.
C18_DequeueOneQueueFifo ==
  [][/\ (pc = "blpop" /\ pc' = "start_first") =>
          /\ Leftmost(queue')
          /\ job_ids' = <<Head(redis[queue'])>>
          /\ redis' = [redis EXCEPT ![queue'] = Tail(@)]
     /\ (pc = "lpop" /\ pc' \in {"start_rest", "spawn"}) =>
          /\ \A i \in 1..Len(job_ids') : job_ids'[i] \in JobIds
          /\ Len(job_ids') <= free_pool_slots - 1
          /\ redis[queue] = job_ids' \o redis'[queue]
          /\ \A q \in QueueNames \ {queue} : redis'[q] = redis[q]
     /\ (pc \in {"start_first", "start_rest"} /\ jobs' # jobs) =>
          jobs' = Append(jobs, Head(job_ids))
     /\ (pc \in {"start_first", "lpop", "start_rest"} /\ pc' = "spawn") =>
          /\ Len(jobs') \in 1..free_pool_slots
          /\ job_ids' = <<>>
     /\ (pc = "spawn" /\ done_jobs' # done_jobs) =>
          /\ slot[Head(jobs)] = "idle" /\ slot'[Head(jobs)] = "spawned"
          /\ jobs' = Tail(jobs)]_vars

\* C18 witness: dequeue_jobs(max_jobs=2) has returned one job: the queue
\* that answered had no second id, its empty pop gave no job, and the id
\* waiting on another queue was left there.
C18_Witness ==
  /\ pc = "spawn"
  /\ free_pool_slots = 2
  /\ Len(jobs) = 1
  /\ \E q \in QueueNames \ {queue} : redis[q] # <<>>

\* C20: a job that dequeue_jobs has popped and marked started, and that has
\* no greenlet of the pool yet, is on its way to the spawn loop: the main
\* greenlet is still in the main loop, it has not left it with the job
\* started and never dispatched.
C20_StartedJobsAreSpawned ==
  \A j \in JobIds :
    (job_status[j] = "started" /\ slot[j] = "idle") => InMainLoop

\* C14: the config field of the worker's heartbeat document has no key
\* outside max_jobs, pool_size, queues and name, whoever wrote it last.
C14_HeartbeatConfigWhitelisted ==
  DOMAIN heartbeat.config \subseteq {"max_jobs", "pool_size", "queues", "name"}

\* C14 witness: the monitoring loop has written a heartbeat for a config
\* that has the keys quiet and profile, and its config field has the keys
\* of the whitelist.
C14_Witness ==
  /\ heartbeat.w = 0
  /\ {"quiet", "profile"} \subseteq DOMAIN config
  /\ DOMAIN heartbeat.config = {"max_jobs", "pool_size", "queues", "name"}

\* C19: the heartbeat document changes only in a turn of the monitoring
\* loop (w=0) or in the finalizer's report_worker(w=1); the monitoring
\* greenlet is dead when the finalizer writes, and nothing writes the
\* document after that.
C19_FinalHeartbeatIsLast ==
  [][/\ heartbeat' # heartbeat =>
          \/ monitoring = "running" /\ pc' = pc /\ heartbeat'.w = 0
          \/ /\ pc = "report" /\ pc' = "flush"
             /\ monitoring = "dead" /\ heartbeat'.w = 1
     /\ heartbeat.w = 1 => heartbeat' = heartbeat]_vars

\* C19 witness: the finalizer has written the final heartbeat, with the
\* monitoring greenlet killed, and is suspended in the final log flush.
C19_Witness ==
  /\ pc = "flush"
  /\ heartbeat.w = 1
  /\ monitoring = "dead"

====
